---- MODULE Spec2Model ----
(***************************************************************************)
(* Model of the meeting-point resolution handler of src/main.py            *)
(* (POST /api/meeting-point): request validation, address de-duplication,  *)
(* the three fan-out stages (geocoding, isochrone fetch, travel time),     *)
(* the single budget escalation, polygon normalisation and the final       *)
(* verdict.                                                                *)
(*                                                                         *)
(* Units.  Minutes that the code keeps as floats rounded to one decimal    *)
(* are kept here as integers in tenths of a minute (eta 15.5 is 155).      *)
(* Geometry lives on a strip of unit cells 1..MaxCell; edge k is the       *)
(* segment shared by cell k and cell k+1.  A geometry is either a point    *)
(* set [cells, edges, pts], whose members are read left to right, or a     *)
(* multi-part geometry built from an explicit list of members, [type,      *)
(* geoms], whose members keep the order they were given in.                *)
(***************************************************************************)
EXTENDS Integers, Sequences, FiniteSets, TLC

(* ---------------- program constants ---------------- *)
MAX_PARTICIPANTS == 10
MAX_MAX_MINUTES == 60
MIN_MAX_MINUTES == 5
ESCALATION_STEP == 5

(* ---------------- bounds of the model ---------------- *)
MaxAddrs == 2
MaxRequests == 2
MaxCell == 5
MaxMembers == 2

(* ---------------- small helpers ---------------- *)
Min(S) == CHOOSE x \in S : \A y \in S : x <= y
Max(S) == CHOOSE x \in S : \A y \in S : x >= y

RECURSIVE SeqSum(_)
SeqSum(s) == IF s = <<>> THEN 0 ELSE Head(s) + SeqSum(Tail(s))

SeqMax(s) == Max({s[i] : i \in DOMAIN s})

SeqsUpTo(S, n) == UNION {[1..k -> S] : k \in 0..n}

(* ---------------- strings ---------------- *)
\* str.strip() on the sample addresses
Strip(s) ==
  CASE s = " A" -> "A"
    [] s = " "  -> ""
    [] OTHER    -> s

\* str.lower() on the (stripped) sample addresses
Lower(s) ==
  CASE s = "A" -> "a"
    [] OTHER   -> s

(* ---------------- geometry ---------------- *)
Cells == 1..MaxCell
Edges == 0..MaxCell

EmptyGeom == [cells |-> {}, edges |-> {}, pts |-> {}]

PolygonOf(S) == [cells |-> S, edges |-> {}, pts |-> {}]

Points == {1, 2}

is_empty(g) ==
  IF "geoms" \in DOMAIN g
  THEN \A i \in DOMAIN g.geoms : g.geoms[i] = EmptyGeom
  ELSE g.cells = {} /\ g.edges = {} /\ g.pts = {}

\* the cells covered by a geometry
CellsOf(g) ==
  IF "geoms" \in DOMAIN g
  THEN UNION {g.geoms[i].cells : i \in DOMAIN g.geoms}
  ELSE g.cells

area(g) == Cardinality(CellsOf(g))

\* maximal runs of adjacent cells, left to right: the polygon members
RECURSIVE Components(_)
Components(S) ==
  IF S = {} THEN <<>>
  ELSE LET lo == Min(S)
           hi == CHOOSE h \in S : h >= lo /\ (lo..h) \subseteq S /\ (h + 1) \notin S
       IN  <<PolygonOf(lo..hi)>> \o Components(S \ (lo..hi))

GeomType(g) ==
  IF "geoms" \in DOMAIN g THEN g.type ELSE
  CASE is_empty(g) -> "Empty"
    [] g.cells # {} /\ g.edges = {} /\ g.pts = {} ->
         IF Len(Components(g.cells)) = 1 THEN "Polygon" ELSE "MultiPolygon"
    [] g.cells = {} /\ g.edges # {} /\ g.pts = {} -> "Lineal"
    [] g.cells = {} /\ g.edges = {} /\ g.pts # {} -> "Puntal"
    [] OTHER -> "GeometryCollection"

\* isinstance(g, (Polygon, MultiPolygon)); the empty point set is Polygon()
IsPolygonal(g) ==
  IF "geoms" \in DOMAIN g THEN g.type = "MultiPolygon"
  ELSE g.edges = {} /\ g.pts = {}

\* geometry.geoms of a multi-part geometry
Geoms(g) ==
  IF "geoms" \in DOMAIN g THEN g.geoms
  ELSE Components(g.cells)
         \o (IF g.edges = {} THEN <<>> ELSE <<[cells |-> {}, edges |-> g.edges, pts |-> {}]>>)
         \o (IF g.pts = {} THEN <<>> ELSE <<[cells |-> {}, edges |-> {}, pts |-> g.pts]>>)

\* whether edge k belongs to the point set of g
EdgeIn(k, g) == k \in g.edges \/ k \in g.cells \/ (k + 1) \in g.cells

\* acc.intersection(poly)
Intersect(g, h) ==
  LET common == g.cells \cap h.cells
  IN  [cells |-> common,
       edges |-> {k \in Edges : /\ EdgeIn(k, g) /\ EdgeIn(k, h)
                                /\ k \notin common /\ (k + 1) \notin common},
       pts   |-> g.pts \cap h.pts]

\* merged.union(poly) on polygonal geometries
GeomUnion(g, h) == PolygonOf(CellsOf(g) \cup CellsOf(h))

RECURSIVE FoldIntersect(_, _)
FoldIntersect(acc, polys) ==
  IF polys = <<>> THEN acc
  ELSE FoldIntersect(Intersect(acc, Head(polys)), Tail(polys))

\* lines 186-187: _intersection raises 500 when it is given no polygon
IntersectionError(polygons) == IF polygons = <<>> THEN 500 ELSE 0

\* _intersection on at least one polygon: functools.reduce from the first
_intersection(polygons) == FoldIntersect(Head(polygons), Tail(polygons))

\* mutant: on equal areas the last member wins
MaxByAreaLast(geoms) ==
  LET i == Max({j \in DOMAIN geoms : \A k \in DOMAIN geoms : area(geoms[j]) >= area(geoms[k])})
  IN  geoms[i]

\* max(geoms, key=area): the first member of maximal area
MaxByArea(geoms) ==
  LET i == Min({j \in DOMAIN geoms : \A k \in DOMAIN geoms : area(geoms[j]) >= area(geoms[k])})
  IN  geoms[i]

_largest_component(geometry) ==
  IF GeomType(geometry) = "MultiPolygon"
  THEN MaxByArea(Geoms(geometry))
  ELSE geometry

RECURSIVE FoldUnion(_, _)
FoldUnion(merged, polys) ==
  IF polys = <<>> THEN merged
  ELSE FoldUnion(GeomUnion(merged, Head(polys)), Tail(polys))

\* mutant: Polygon left out of the isinstance test of line 201
PolygonalRegionMultiOnly(geometry) ==
  IF is_empty(geometry) THEN geometry
  ELSE IF GeomType(geometry) = "MultiPolygon"
       THEN _largest_component(geometry)
  ELSE IF GeomType(geometry) = "GeometryCollection"
       THEN LET polys == SelectSeq(Geoms(geometry), IsPolygonal)
            IN  IF polys = <<>> THEN EmptyGeom
                ELSE _largest_component(FoldUnion(Head(polys), Tail(polys)))
  ELSE EmptyGeom

_polygonal_region(geometry) ==
  IF is_empty(geometry) THEN geometry
  ELSE IF GeomType(geometry) \in {"Polygon", "MultiPolygon"}
       THEN _largest_component(geometry)
  ELSE IF GeomType(geometry) = "GeometryCollection"
       THEN LET polys == SelectSeq(Geoms(geometry), IsPolygonal)
            IN  IF polys = <<>> THEN EmptyGeom
                ELSE _largest_component(FoldUnion(Head(polys), Tail(polys)))
  ELSE EmptyGeom

\* region.centroid of a single polygon lo..hi, as <<x, y>> in half units
Centroid(region) == <<(Min(region.cells) - 1) + Max(region.cells), 1>>

(* ---------------- external providers (environment) ---------------- *)
RawAddrs == {"a", " A", "b", " "}
RawBudgets == {4, 15, 57, 60, 61}
Objectives == {"min_sum", "min_max"}
\* city_hint: "" stands for None (both are falsy at lines 109 and 113)
Hints == {"", "h"}

\* what a provider may answer to one call
GeoResponses == {"ok", "no_result", "s429"}
IsoResponses == {"ok", "s5xx"}
TrvResponses == {"ok", "no_result", "neterr"}
TravelScenarios == {"near", "edge", "far"}

\* geometries the isochrone provider may return
IsoGeoms ==
  {PolygonOf({1}), PolygonOf({3, 4}), PolygonOf({2, 4, 5}), EmptyGeom}

\* Mapbox geocoding: the coordinate <<lng, lat>> of a query
GeocodingProvider(query) ==
  CASE query = "a"    -> <<1, 2>>
    [] query = "A"    -> <<1, 2>>
    [] query = "b"    -> <<3, 4>>
    [] query = "a, h" -> <<5, 6>>
    [] query = "A, h" -> <<5, 6>>
    [] query = "b, h" -> <<7, 8>>

\* Mapbox directions: the duration in seconds from an origin, per traffic scenario
RoutingProvider(origin, scenario) ==
  CASE scenario = "near" -> 600
    [] scenario = "edge" ->
         (CASE origin[1] = 1 -> 932 [] origin[1] = 3 -> 927
            [] origin[1] = 5 -> 933 [] OTHER -> 930)
    [] scenario = "far" ->
         (CASE origin[1] = 1 -> 934 [] origin[1] = 3 -> 1233
            [] origin[1] = 5 -> 3633 [] OTHER -> 3700)

\* sample durations d = 6k+3 whose double d/60 lies above the decimal tie
TiesRoundingUp == {603, 933, 1233}

(* ---------------- pure functions of the handler ---------------- *)
\* the status-code ladder shared by the three provider calls; 0 is success
HttpError(resp) ==
  CASE resp = "neterr" -> 502
    [] resp = "s401"   -> 401
    [] resp = "s429"   -> 429
    [] resp = "s5xx"   -> 502
    [] resp = "s4xx"   -> 400
    [] OTHER           -> 0

GeocodeError(resp) == IF resp = "no_result" THEN 400 ELSE HttpError(resp)

IsochroneError(resp, geom) ==
  IF HttpError(resp) # 0 THEN HttpError(resp)
  ELSE IF resp = "no_result" THEN 502
  ELSE IF is_empty(geom) THEN 502
  ELSE 0

\* the detail of the HTTPException _fetch_isochrone raises
IsochroneDetail(resp, geom) ==
  IF HttpError(resp) # 0 THEN "Mapbox isochrone service error"
  ELSE IF resp = "no_result" THEN "Isochrone response contained no geometry"
  ELSE IF is_empty(geom) THEN "Isochrone geometry was empty"
  ELSE ""

TravelError(resp) == IF resp = "no_result" THEN 502 ELSE HttpError(resp)

cache_key(address, city_hint) ==
  IF city_hint # "" THEN address \o "|" \o city_hint ELSE address

geocode_query(address, city_hint) ==
  IF city_hint # "" THEN address \o ", " \o city_hint ELSE address

\* validate_addresses: the stripped, non-blank addresses
Cleaned(value) ==
  LET stripped == [i \in DOMAIN value |-> Strip(value[i])]
  IN  SelectSeq(stripped, LAMBDA a : a # "")

\* mutant: the validator accepts a list of blank addresses
AddressesValidBlank(value) ==
  /\ Len(value) >= 1
  /\ Len(Cleaned(value)) <= MAX_PARTICIPANTS

AddressesValid(value) ==
  /\ Len(value) >= 1
  /\ Cleaned(value) # <<>>
  /\ Len(Cleaned(value)) <= MAX_PARTICIPANTS

BudgetValid(max_minutes) ==
  max_minutes >= MIN_MAX_MINUTES /\ max_minutes <= MAX_MAX_MINUTES

RECURSIVE Dedup(_, _, _)
Dedup(addresses, seen, deduped) ==
  IF addresses = <<>> THEN deduped
  ELSE LET addr == Head(addresses)
           key  == Lower(addr)
       IN  IF key \in seen
           THEN Dedup(Tail(addresses), seen, deduped)
           ELSE Dedup(Tail(addresses), seen \cup {key}, Append(deduped, addr))

\* mutant: the de-duplication step left out
DeduplicateNothing(addresses) == addresses

_deduplicate_addresses(addresses) == Dedup(addresses, {}, <<>>)

\* round(d / 60, 1), in tenths of a minute
RoundTenths(d) ==
  LET q == d \div 6
      r == d % 6
  IN  IF r < 3 THEN q
      ELSE IF r > 3 THEN q + 1
      ELSE IF d \in TiesRoundingUp THEN q + 1 ELSE q

\* mutant: the maximum taken only when asked for the sum
ObjectiveValueSwapped(values, objective) ==
  IF objective = "min_sum" THEN SeqMax(values) ELSE SeqSum(values)

\* _objective_value over minutes in tenths
_objective_value(values, objective) ==
  IF objective = "min_sum" THEN SeqSum(values) ELSE SeqMax(values)

\* mutant: the half-minute tolerance forgotten
ReachableNoTolerance(durations_minutes, effective) ==
  \A i \in DOMAIN durations_minutes : durations_minutes[i] <= 10 * effective

\* all(d <= effective_max_minutes + 0.5 for d in durations_minutes)
Reachable(durations_minutes, effective) ==
  \A i \in DOMAIN durations_minutes : durations_minutes[i] <= 10 * effective + 5

\* mutant: the cap at the ceiling forgotten
BumpedUncapped(max_minutes) == max_minutes + ESCALATION_STEP

\* bumped = min(MAX_MAX_MINUTES, payload.max_minutes + 5)
Bumped(max_minutes) ==
  IF max_minutes + ESCALATION_STEP < MAX_MAX_MINUTES
  THEN max_minutes + ESCALATION_STEP ELSE MAX_MAX_MINUTES

\* mutant: escalates whenever the budget is below the ceiling
ShouldEscalateAlways(geom, max_minutes) == max_minutes < MAX_MAX_MINUTES

\* mutant: the emptiness test negated
ShouldEscalateInverted(geom, max_minutes) ==
  ~is_empty(geom) /\ max_minutes < MAX_MAX_MINUTES

\* the escalation test of line 295
ShouldEscalate(geom, max_minutes) ==
  is_empty(geom) /\ max_minutes < MAX_MAX_MINUTES

(* ---------------- state ---------------- *)
VARIABLES
  pc,          \* where the handler stands
  nreq,        \* requests received so far
  payload,     \* the validated MeetingPointRequest
  addresses,   \* the de-duplicated addresses
  geo,         \* the geocoding tasks, by index
  coords,      \* result of the geocoding gather
  minutes,     \* argument of the running compute_with_minutes
  iso,         \* the isochrone tasks of the running round, by index
  intersection_geom,
  effective_max_minutes,
  region,
  scenario,    \* traffic the routing provider answers with
  trv,         \* the travel-time tasks, by index
  response,    \* the 200 body returned
  error,       \* the status code of the HTTPException raised, 0 if none
  _geocode_cache,
  orphans,     \* geocoding calls of earlier requests still in flight
  fetchLog,    \* budget of every isochrone call issued by this request
  calls        \* provider calls issued by this request, per stage

vars == <<pc, nreq, payload, addresses, geo, coords, minutes, iso,
          intersection_geom, effective_max_minutes, region, scenario, trv,
          response, error, _geocode_cache, orphans, fetchLog, calls>>

\* payload.addresses is read once, at line 272; it is kept until the geocoding
\* gather hands over and is dropped afterwards
NoPayload == [addresses |-> <<>>, max_minutes |-> 0, objective |-> "", city_hint |-> ""]
NoResponse == [none |-> TRUE]
NoCalls == [geo |-> 0, iso |-> 0, trv |-> 0]
Pending == [st |-> "pending", val |-> 0]
Done(v) == [st |-> "done", val |-> v]
Failed(code) == [st |-> "failed", val |-> code]
FailedWith(code, detail) == [st |-> "failed", val |-> code, detail |-> detail]


\* mutant: results taken in another order than the task order
ValuesReversed(tasks) == [i \in DOMAIN tasks |-> tasks[Len(tasks) + 1 - i].val]

\* mutant: a failed call is swallowed and the handler keeps waiting
AfterFailureSwallowed(stage) == stage

\* mutant: the stage hands over as soon as one call has returned
StageCompleteFirst(tasks) == \E i \in DOMAIN tasks : tasks[i].st = "done"

\* asyncio.gather without return_exceptions: the first exception of a task
\* is raised in the awaiting handler, whatever stage it stood at
AfterFailure(stage) == "failed"

AllDone(tasks) == \A i \in DOMAIN tasks : tasks[i].st = "done"
Values(tasks) == [i \in DOMAIN tasks |-> tasks[i].val]
Repeat(n, x) == [i \in 1..n |-> x]

Init ==
  /\ pc = "idle"
  /\ nreq = 0
  /\ payload = NoPayload
  /\ addresses = <<>>
  /\ geo = <<>>
  /\ coords = <<>>
  /\ minutes = 0
  /\ iso = <<>>
  /\ intersection_geom = EmptyGeom
  /\ effective_max_minutes = 0
  /\ region = EmptyGeom
  /\ scenario = ""
  /\ trv = <<>>
  /\ response = NoResponse
  /\ error = 0
  /\ _geocode_cache = [k \in {} |-> <<0, 0>>]
  /\ orphans = {}
  /\ fetchLog = <<>>
  /\ calls = NoCalls

\* the geocoding calls a returned request leaves in flight
Leftover ==
  {[address |-> addresses[i], city_hint |-> payload.city_hint] :
     i \in {j \in DOMAIN geo : geo[j].st = "pending"}}

\* the locals of a request that has not reached, or has left, the handler
NoLocals ==
  /\ payload' = NoPayload
  /\ addresses' = <<>>
  /\ geo' = <<>>
  /\ coords' = <<>>
  /\ minutes' = 0
  /\ iso' = <<>>
  /\ intersection_geom' = EmptyGeom
  /\ effective_max_minutes' = 0
  /\ region' = EmptyGeom
  /\ scenario' = ""
  /\ trv' = <<>>
  /\ fetchLog' = <<>>
  /\ calls' = NoCalls

\* _geocode_address up to its first suspension: a cache hit returns at once
GeocodeStart(address, city_hint) ==
  IF cache_key(address, city_hint) \in DOMAIN _geocode_cache
  THEN Done(_geocode_cache[cache_key(address, city_hint)])
  ELSE Pending

\* the address lists a client may post: every short list, and one list at and
\* one list past the participant limit
RequestAddresses ==
  SeqsUpTo(RawAddrs, MaxAddrs)
    \cup {Repeat(MAX_PARTICIPANTS, "a"), Repeat(MAX_PARTICIPANTS + 1, " A")}

\* POST /api/meeting-point: validation, token, de-duplication, geocoding fan-out
Request ==
  /\ pc = "idle"
  /\ nreq < MaxRequests
  /\ nreq' = nreq + 1
  /\ response' = NoResponse
  /\ UNCHANGED <<_geocode_cache, orphans>>
  /\ \E raw \in RequestAddresses, mm \in RawBudgets,
        obj \in Objectives, hint \in Hints, token \in BOOLEAN :
       IF ~(AddressesValid(raw) /\ BudgetValid(mm))
       THEN /\ pc' = "failed" /\ error' = 422 /\ NoLocals
       ELSE IF ~token
       THEN /\ pc' = "failed" /\ error' = 500 /\ NoLocals
       ELSE IF _deduplicate_addresses(Cleaned(raw)) = <<>>
       THEN /\ pc' = "failed" /\ error' = 400
            /\ payload' = [addresses |-> Cleaned(raw), max_minutes |-> mm,
                           objective |-> obj, city_hint |-> hint]
            /\ UNCHANGED <<addresses, geo, coords, minutes, iso, intersection_geom,
                           effective_max_minutes, region, scenario, trv, fetchLog,
                           calls>>
       ELSE LET deduped == _deduplicate_addresses(Cleaned(raw))
                tasks == [i \in DOMAIN deduped |-> GeocodeStart(deduped[i], hint)]
            IN  /\ payload' = [addresses |-> Cleaned(raw), max_minutes |-> mm,
                               objective |-> obj, city_hint |-> hint]
                /\ addresses' = deduped
                /\ geo' = tasks
                /\ calls' = [NoCalls EXCEPT
                     !.geo = Cardinality({i \in DOMAIN tasks : tasks[i].st = "pending"})]
                /\ pc' = "geocoding"
                /\ error' = 0
                /\ UNCHANGED <<coords, minutes, iso, intersection_geom,
                               effective_max_minutes, region, scenario, trv, fetchLog>>

\* the response or the error has been sent: the handler's frame is gone, its
\* unfinished geocoding calls are not
Return ==
  /\ pc \in {"done", "failed"}
  /\ pc' = "idle"
  /\ orphans' = orphans \cup Leftover
  /\ response' = NoResponse
  /\ error' = 0
  /\ NoLocals
  /\ UNCHANGED <<nreq, _geocode_cache>>

\* mutant: the cache is replaced by the new entry instead of updated
CacheWriteReplacing(key, value) == [k \in {key} |-> value]

\* _geocode_cache[cache_key] = coords
CacheWrite(key, value) ==
  [k \in DOMAIN _geocode_cache \cup {key} |->
     IF k = key THEN value ELSE _geocode_cache[k]]

\* a geocoding call returns (lines 118-142); its siblings keep running on failure
GeocodeDone(i) ==
  /\ pc \in {"geocoding", "failed"}
  /\ i \in DOMAIN geo
  /\ geo[i].st = "pending"
  /\ \E resp \in GeoResponses :
       IF GeocodeError(resp) = 0
       THEN /\ geo' = [geo EXCEPT ![i] =
                 Done(GeocodingProvider(geocode_query(addresses[i], payload.city_hint)))]
            /\ _geocode_cache' = CacheWrite(cache_key(addresses[i], payload.city_hint),
                 GeocodingProvider(geocode_query(addresses[i], payload.city_hint)))
            /\ UNCHANGED <<pc, error>>
       ELSE /\ geo' = [geo EXCEPT ![i] = Failed(GeocodeError(resp))]
            /\ pc' = AfterFailure(pc)
            /\ error' = IF pc = "failed" THEN error ELSE GeocodeError(resp)
            /\ UNCHANGED _geocode_cache
  /\ UNCHANGED <<nreq, payload, addresses, coords, minutes, iso, intersection_geom,
                 effective_max_minutes, region, scenario, trv, response, orphans,
                 fetchLog, calls>>

\* a geocoding call of an earlier request returns
OrphanGeocodeDone ==
  /\ \E o \in orphans, resp \in GeoResponses :
       /\ orphans' = orphans \ {o}
       /\ _geocode_cache' =
            IF GeocodeError(resp) = 0
            THEN CacheWrite(cache_key(o.address, o.city_hint),
                   GeocodingProvider(geocode_query(o.address, o.city_hint)))
            ELSE _geocode_cache
  /\ UNCHANGED <<pc, nreq, payload, addresses, geo, coords, minutes, iso,
                 intersection_geom, effective_max_minutes, region, scenario, trv,
                 response, error, fetchLog, calls>>

\* when a fan-out stage may hand its results to the handler
StageComplete(tasks) == AllDone(tasks)

\* compute_with_minutes up to its gather: one isochrone call per coordinate
IssueIsochrones(n, m) ==
  /\ minutes' = m
  /\ iso' = Repeat(n, Pending)
  /\ fetchLog' = fetchLog \o Repeat(n, m)
  /\ calls' = [calls EXCEPT !.iso = @ + n]

\* line 282 resumes: coords in task order, then the first isochrone round
GeocodeJoin ==
  /\ pc = "geocoding"
  /\ StageComplete(geo)
  /\ coords' = Values(geo)
  /\ IssueIsochrones(Len(geo), payload.max_minutes)
  /\ effective_max_minutes' = payload.max_minutes
  /\ payload' = [payload EXCEPT !.addresses = <<>>]
  /\ pc' = "iso_first"
  /\ UNCHANGED <<nreq, addresses, geo, intersection_geom, region, scenario,
                 trv, response, error, _geocode_cache, orphans>>

\* an isochrone call returns (lines 157-182)
IsoDone(i) ==
  /\ pc \in {"iso_first", "iso_bumped", "failed"}
  /\ i \in DOMAIN iso
  /\ iso[i].st = "pending"
  /\ \E resp \in IsoResponses, geom \in IsoGeoms :
       IF IsochroneError(resp, geom) = 0
       THEN /\ iso' = [iso EXCEPT ![i] = Done(geom)]
            /\ UNCHANGED <<pc, error>>
       ELSE /\ iso' = [iso EXCEPT ![i] =
                 FailedWith(IsochroneError(resp, geom), IsochroneDetail(resp, geom))]
            /\ pc' = AfterFailure(pc)
            /\ error' = IF pc = "failed" THEN error ELSE IsochroneError(resp, geom)
  /\ UNCHANGED <<nreq, payload, addresses, geo, coords, minutes, intersection_geom,
                 effective_max_minutes, region, scenario, trv, response,
                 _geocode_cache, orphans, fetchLog, calls>>

\* mutant: the two reason codes mixed up
NoCommonRegionWrongReason(effective) ==
  [reachable |-> FALSE, reason |-> "travel_time_exceeds_budget", max_minutes |-> effective]

\* the body returned at lines 301-308 and 313-320
NoCommonRegion(effective) ==
  [reachable |-> FALSE, reason |-> "no_common_reachable_region", max_minutes |-> effective]

\* lines 300-329 once the intersection to use is known
Resolve(geom, effective) ==
  /\ intersection_geom' = geom
  /\ effective_max_minutes' = effective
  /\ region' = _polygonal_region(intersection_geom')
  /\ IF is_empty(intersection_geom') \/ is_empty(region')
     THEN /\ response' = NoCommonRegion(effective)
          /\ pc' = "done"
          /\ UNCHANGED <<scenario, trv, calls>>
     ELSE /\ \E sc \in TravelScenarios : scenario' = sc
          /\ trv' = Repeat(Len(coords), Pending)
          /\ calls' = [calls EXCEPT !.trv = @ + Len(coords)]
          /\ pc' = "travel"
          /\ UNCHANGED response
  /\ UNCHANGED <<minutes, iso, fetchLog>>

\* compute_with_minutes raises out of _intersection (line 290)
RaiseFromJoin(code) ==
  /\ pc' = "failed"
  /\ error' = code
  /\ UNCHANGED <<minutes, iso, fetchLog, calls, intersection_geom,
                 effective_max_minutes, region, scenario, trv, response>>

\* line 293 resumes: intersection at the requested budget, escalate or resolve
IsoJoinFirst ==
  /\ pc = "iso_first"
  /\ StageComplete(iso)
  /\ IF IntersectionError(Values(iso)) # 0
     THEN RaiseFromJoin(IntersectionError(Values(iso)))
     ELSE /\ intersection_geom' = _intersection(Values(iso))
          /\ IF ShouldEscalate(intersection_geom', payload.max_minutes)
             THEN /\ IssueIsochrones(Len(coords), Bumped(payload.max_minutes))
                  /\ pc' = "iso_bumped"
                  /\ UNCHANGED <<effective_max_minutes, region, scenario, trv, response>>
             ELSE Resolve(intersection_geom', effective_max_minutes)
          /\ UNCHANGED error
  /\ UNCHANGED <<nreq, payload, addresses, geo, coords, _geocode_cache, orphans>>

\* mutant: the assignment of line 298 forgotten
EffectiveBudgetStale(requested, bumped) == requested

\* effective_max_minutes = bumped, line 298
EffectiveBudget(requested, bumped) == bumped

\* line 297 resumes: intersection at the bumped budget
IsoJoinBumped ==
  /\ pc = "iso_bumped"
  /\ StageComplete(iso)
  /\ IF IntersectionError(Values(iso)) # 0
     THEN RaiseFromJoin(IntersectionError(Values(iso)))
     ELSE /\ Resolve(_intersection(Values(iso)),
                     EffectiveBudget(effective_max_minutes, minutes))
          /\ UNCHANGED error
  /\ UNCHANGED <<nreq, payload, addresses, geo, coords, _geocode_cache, orphans>>

\* a directions call returns (lines 235-255)
TravelDone(i) ==
  /\ pc \in {"travel", "failed"}
  /\ i \in DOMAIN trv
  /\ trv[i].st = "pending"
  /\ \E resp \in TrvResponses :
       IF TravelError(resp) = 0
       THEN /\ trv' = [trv EXCEPT ![i] = Done(RoutingProvider(coords[i], scenario))]
            /\ UNCHANGED <<pc, error>>
       ELSE /\ trv' = [trv EXCEPT ![i] = Failed(TravelError(resp))]
            /\ pc' = AfterFailure(pc)
            /\ error' = IF pc = "failed" THEN error ELSE TravelError(resp)
  /\ UNCHANGED <<nreq, payload, addresses, geo, coords, minutes, iso, intersection_geom,
                 effective_max_minutes, region, scenario, response, _geocode_cache,
                 orphans, fetchLog, calls>>

\* lines 332-341: zip(addresses, coords, durations_minutes)
Participants(addrs, cs, etas) ==
  [i \in DOMAIN addrs |->
     [address |-> addrs[i], lat |-> cs[i][2], lng |-> cs[i][1], eta_minutes |-> etas[i]]]

\* lines 330-362: the response body of a request that has a candidate
ResponseBody(durations_seconds) ==
  LET durations_minutes == [i \in DOMAIN durations_seconds |->
                              RoundTenths(durations_seconds[i])]
      reachable == Reachable(durations_minutes, effective_max_minutes)
      body == [meeting_point |-> [lat |-> Centroid(region)[2], lng |-> Centroid(region)[1]],
               participants |-> Participants(addresses, coords, durations_minutes),
               objective |-> payload.objective,
               objective_value |-> _objective_value(durations_minutes, payload.objective),
               max_minutes |-> effective_max_minutes,
               reachable |-> reachable,
               debug |-> region]
  IN  IF reachable THEN body
      ELSE [k \in DOMAIN body \cup {"reason"} |->
              IF k = "reason" THEN "travel_time_exceeds_budget" ELSE body[k]]

\* line 329 resumes: durations in task order, verdict and body
TravelJoin ==
  /\ pc = "travel"
  /\ StageComplete(trv)
  /\ response' = ResponseBody(Values(trv))
  /\ pc' = "done"
  /\ UNCHANGED <<nreq, payload, addresses, geo, coords, minutes, iso, intersection_geom,
                 effective_max_minutes, region, scenario, trv, error, _geocode_cache,
                 orphans, fetchLog, calls>>

Next ==
  \/ Request
  \/ Return
  \/ \E i \in 1..MaxAddrs : GeocodeDone(i)
  \/ OrphanGeocodeDone
  \/ GeocodeJoin
  \/ \E i \in 1..MaxAddrs : IsoDone(i)
  \/ IsoJoinFirst
  \/ IsoJoinBumped
  \/ \E i \in 1..MaxAddrs : TravelDone(i)
  \/ TravelJoin

Spec == Init /\ [][Next]_vars

\* Every provider call runs on the shared client with timeout=20 (line 77), so
\* a call in flight returns, with an answer or an error, and the event loop
\* resumes a handler whose gather is complete and sends what it returns or
\* raises: as long as one of these steps is possible, one of them happens.
Progress ==
  \/ \E i \in 1..MaxAddrs : GeocodeDone(i)
  \/ OrphanGeocodeDone
  \/ GeocodeJoin
  \/ \E i \in 1..MaxAddrs : IsoDone(i)
  \/ IsoJoinFirst
  \/ IsoJoinBumped
  \/ \E i \in 1..MaxAddrs : TravelDone(i)
  \/ TravelJoin
  \/ Return

Fairness == WF_vars(Progress)

\* one request from its arrival to the end of every call it issued
FirstRequest == nreq = 0 /\ Request

LiveNext ==
  \/ FirstRequest
  \/ Return
  \/ \E i \in 1..MaxAddrs : GeocodeDone(i)
  \/ OrphanGeocodeDone
  \/ GeocodeJoin
  \/ \E i \in 1..MaxAddrs : IsoDone(i)
  \/ IsoJoinFirst
  \/ IsoJoinBumped
  \/ \E i \in 1..MaxAddrs : TravelDone(i)
  \/ TravelJoin

LiveSpec == Init /\ [][LiveNext]_vars /\ Fairness

(* ---------------- _polygonal_region on its own ---------------- *)
\* single polygons: the runs of adjacent cells
Runs == {PolygonOf(lo..hi) : lo \in Cells, hi \in Cells} \ {EmptyGeom}

\* what a multi-part geometry can be made of: polygons, the empty polygon,
\* single segments and single points
SimpleGeoms ==
  Runs \cup {EmptyGeom}
       \cup {[cells |-> {}, edges |-> {k}, pts |-> {}] : k \in Edges}
       \cup {[cells |-> {}, edges |-> {}, pts |-> {q}] : q \in Points}

\* a valid MultiPolygon: its polygons neither overlap nor share an edge
Apart(s) ==
  \A i, j \in DOMAIN s :
    i # j => \A c \in s[i].cells : {c - 1, c, c + 1} \cap s[j].cells = {}

\* the geometries _polygonal_region is applied to
Geometries ==
  [cells : SUBSET Cells, edges : SUBSET Edges, pts : SUBSET Points]
    \cup {[type |-> "MultiPolygon", geoms |-> s] :
            s \in {t \in SeqsUpTo(Runs, MaxMembers) : Apart(t)}}
    \cup {[type |-> "GeometryCollection", geoms |-> s] :
            s \in SeqsUpTo(SimpleGeoms, MaxMembers)}

NormalizeInit ==
  /\ pc = "normalize"
  /\ intersection_geom \in Geometries
  /\ nreq = 0
  /\ payload = NoPayload
  /\ addresses = <<>>
  /\ geo = <<>>
  /\ coords = <<>>
  /\ minutes = 0
  /\ iso = <<>>
  /\ effective_max_minutes = 0
  /\ region = EmptyGeom
  /\ scenario = ""
  /\ trv = <<>>
  /\ response = NoResponse
  /\ error = 0
  /\ _geocode_cache = [k \in {} |-> <<0, 0>>]
  /\ orphans = {}
  /\ fetchLog = <<>>
  /\ calls = NoCalls

\* region = _polygonal_region(intersection_geom), line 310
Normalize ==
  /\ pc = "normalize"
  /\ region' = _polygonal_region(intersection_geom)
  /\ pc' = "normalized"
  /\ UNCHANGED <<nreq, payload, addresses, geo, coords, minutes, iso,
                 intersection_geom, effective_max_minutes, scenario, trv,
                 response, error, _geocode_cache, orphans, fetchLog, calls>>

\* _polygonal_region applied to its own result
NormalizeAgain ==
  /\ pc = "normalized"
  /\ intersection_geom' = region
  /\ region' = _polygonal_region(region)
  /\ pc' = "renormalized"
  /\ UNCHANGED <<nreq, payload, addresses, geo, coords, minutes, iso,
                 effective_max_minutes, scenario, trv, response, error,
                 _geocode_cache, orphans, fetchLog, calls>>

NormalizeNext == Normalize \/ NormalizeAgain

NormalizeSpec == NormalizeInit /\ [][NormalizeNext]_vars

(***************************************************************************)
(* Properties                                                              *)
(***************************************************************************)
InHandler == pc \notin {"idle"} /\ addresses # <<>>
N == Len(addresses)
Requested == payload.max_minutes
\* min(60, B + 5), written out
CapPlusFive(b) == IF b + 5 > 60 THEN 60 ELSE b + 5

HasReason(r) == "reason" \in DOMAIN response /\ response.reason = r
NoCommon == pc = "done" /\ HasReason("no_common_reachable_region")
HasCandidate == pc = "done" /\ "meeting_point" \in DOMAIN response

\* the handler resumes from an isochrone gather (lines 293 and 297)
IsoJoinStep == pc \in {"iso_first", "iso_bumped"} /\ pc' \notin {pc, "failed", "idle"}
SecondRoundStep == Len(fetchLog') > Len(fetchLog) /\ fetchLog # <<>>

\* C1: the isochrone stage runs at most twice per request: N calls at the
\* requested budget B and, only when the intersection at B is empty and B < 60,
\* N more at min(60, B+5); never a third round; and a request whose second
\* intersection is empty too answers no_common_reachable_region with
\* max_minutes = min(60, B+5).
C1_AtMostTwoRounds ==
  /\ [](InHandler =>
          /\ Len(fetchLog) \in {0, N, 2 * N}
          /\ \A k \in DOMAIN fetchLog :
               fetchLog[k] = IF k <= N THEN Requested ELSE CapPlusFive(Requested)
          /\ (pc = "done" /\ Len(fetchLog) = 2 * N /\ is_empty(intersection_geom))
               => response = [reachable |-> FALSE,
                              reason |-> "no_common_reachable_region",
                              max_minutes |-> CapPlusFive(Requested)])
  /\ [][SecondRoundStep =>
          /\ pc = "iso_first" /\ AllDone(iso)
          /\ is_empty(_intersection(Values(iso)))
          /\ Requested < 60
          /\ Len(fetchLog) = N]_vars

C1_Witness ==
  /\ NoCommon /\ N = 2 /\ Requested = 15
  /\ fetchLog = <<15, 15, 20, 20>>
  /\ is_empty(intersection_geom)
  /\ response.max_minutes = 20

\* C2 (as claimed): escalation is decided on the normalised region, so a
\* request below the ceiling never answers no_common_reachable_region after a
\* single isochrone round.
C2_EscalatesOnNormalizedRegion ==
  (NoCommon /\ Requested < 60) => Len(fetchLog) = 2 * N

\* C3: when a candidate exists, reachable is true iff every eta_minutes is at
\* most max_minutes + 0.5, max_minutes being the budget of the last isochrone
\* round (the escalated one after an escalation).
C3_VerdictAgainstEffectiveBudget ==
  HasCandidate =>
    /\ response.reachable <=>
         \A i \in DOMAIN response.participants :
           response.participants[i].eta_minutes <= 10 * response.max_minutes + 5
    /\ response.max_minutes = fetchLog[Len(fetchLog)]
    /\ response.max_minutes =
         IF Len(fetchLog) = 2 * N THEN CapPlusFive(Requested) ELSE Requested

C3_Witness ==
  /\ HasCandidate /\ response.reachable
  /\ Requested = 15 /\ response.max_minutes = 20
  /\ \E i \in DOMAIN response.participants :
       response.participants[i].eta_minutes > 155

\* C4: a response carries a reason iff reachable is false;
\* no_common_reachable_region exactly when the normalised region is empty, and
\* then the body has no meeting point, participants or objective value;
\* travel_time_exceeds_budget exactly when a candidate exists and some eta
\* exceeds max_minutes + 0.5, and then the body still has all of them.
C4_ReasonCodes ==
  pc = "done" =>
    /\ ("reason" \in DOMAIN response) <=> ~response.reachable
    /\ HasReason("no_common_reachable_region") <=> is_empty(region)
    /\ HasReason("no_common_reachable_region") =>
         DOMAIN response = {"reachable", "reason", "max_minutes"}
    /\ HasReason("travel_time_exceeds_budget") <=>
         /\ "meeting_point" \in DOMAIN response
         /\ \E i \in DOMAIN response.participants :
              response.participants[i].eta_minutes > 10 * response.max_minutes + 5
    /\ HasReason("travel_time_exceeds_budget") =>
         /\ {"meeting_point", "participants", "objective_value"} \subseteq DOMAIN response
         /\ Len(response.participants) = N
    /\ "reason" \in DOMAIN response =>
         response.reason \in {"no_common_reachable_region", "travel_time_exceeds_budget"}

C4_Witness ==
  /\ pc = "done" /\ HasReason("travel_time_exceeds_budget")
  /\ Len(response.participants) = 2
  /\ response.objective_value > 0
  /\ ~is_empty(region)

\* C5: no isochrone call is issued with a budget above 60 and no response
\* reports max_minutes above 60; a request at 60 never gets a second round,
\* and with an empty intersection it answers infeasible with max_minutes 60.
C5_BudgetCappedAtCeiling ==
  /\ \A k \in DOMAIN fetchLog : fetchLog[k] <= 60
  /\ minutes <= 60 /\ effective_max_minutes <= 60
  /\ "max_minutes" \in DOMAIN response => response.max_minutes <= 60
  /\ (InHandler /\ Requested = 60) =>
       /\ Len(fetchLog) <= N
       /\ (pc = "done" /\ is_empty(intersection_geom)) =>
            response = [reachable |-> FALSE,
                        reason |-> "no_common_reachable_region",
                        max_minutes |-> 60]

C5_Witness ==
  /\ NoCommon /\ Requested = 60 /\ N = 2
  /\ is_empty(intersection_geom)
  /\ fetchLog = <<60, 60>>
  /\ response.max_minutes = 60

C5_WitnessCapped ==
  /\ pc = "done" /\ Requested = 57 /\ fetchLog = <<57, 57, 60, 60>>

\* C6: when the feasible region at the requested budget B is non-empty the
\* handler does not escalate: it goes on to the travel stage with the N calls
\* at B as its only isochrone calls, and every body built after a single
\* round reports max_minutes = B.
C6_StopsAtFirstFeasibleBudget ==
  /\ [][(/\ pc = "iso_first" /\ pc' \notin {"iso_first", "failed", "idle"}
         /\ AllDone(iso)
         /\ ~is_empty(_polygonal_region(_intersection(Values(iso)))))
        => /\ pc' = "travel"
           /\ fetchLog' = fetchLog
           /\ fetchLog = [k \in 1..N |-> Requested]
           /\ effective_max_minutes' = Requested]_vars
  /\ []((pc \in {"travel", "done"} /\ Len(fetchLog) = N)
          => /\ effective_max_minutes = Requested
             /\ "max_minutes" \in DOMAIN response => response.max_minutes = Requested)

C6_Witness ==
  /\ HasCandidate /\ response.reachable
  /\ N = 2 /\ Requested = 15
  /\ fetchLog = <<15, 15>>
  /\ response.max_minutes = 15
  /\ ~is_empty(region)

RECURSIVE EtaSum(_)
EtaSum(ps) == IF ps = <<>> THEN 0 ELSE Head(ps).eta_minutes + EtaSum(Tail(ps))
EtaMax(ps) ==
  CHOOSE m \in {ps[i].eta_minutes : i \in DOMAIN ps} :
    \A i \in DOMAIN ps : ps[i].eta_minutes <= m

\* C7: when a candidate exists, objective_value is the sum of the listed
\* participants' eta_minutes for min_sum and their maximum for min_max, and
\* the listed participants are exactly the de-duplicated addresses.
C7_ObjectiveValue ==
  HasCandidate =>
    /\ response.objective = payload.objective
    /\ response.objective \in {"min_sum", "min_max"}
    /\ response.objective = "min_sum" =>
         response.objective_value = EtaSum(response.participants)
    /\ response.objective = "min_max" =>
         response.objective_value = EtaMax(response.participants)
    /\ Len(response.participants) = N

\* two participants at 10.0 minutes each give 20.0 under min_sum
C7_Witness ==
  /\ HasCandidate /\ response.objective = "min_sum"
  /\ Len(response.participants) = 2
  /\ \A i \in 1..2 : response.participants[i].eta_minutes = 100
  /\ response.objective_value = 200

C7_WitnessMax ==
  /\ HasCandidate /\ response.objective = "min_max"
  /\ Len(response.participants) = 2
  /\ response.participants[1].eta_minutes < response.participants[2].eta_minutes
  /\ response.objective_value = response.participants[2].eta_minutes

\* C8: whatever the completion order of the geocoding and of the travel-time
\* calls, participant i of the body carries de-duplicated address i, the
\* coordinate the geocoder gives for that address, and the travel time the
\* router gives from that coordinate.
C8_ResultsMatchedByIndex ==
  /\ (pc \in {"iso_first", "iso_bumped", "travel", "done"} /\ InHandler) =>
       /\ Len(coords) = N
       /\ \A i \in 1..N :
            coords[i] = GeocodingProvider(geocode_query(addresses[i], payload.city_hint))
  /\ HasCandidate =>
       /\ Len(response.participants) = N
       /\ \A i \in 1..N :
            LET p == response.participants[i]
                c == GeocodingProvider(geocode_query(addresses[i], payload.city_hint))
            IN  /\ p.address = addresses[i]
                /\ <<p.lng, p.lat>> = c
                /\ p.eta_minutes = RoundTenths(RoutingProvider(c, scenario))

C8_Witness ==
  /\ HasCandidate /\ N = 2 /\ calls.geo = 2 /\ calls.trv = 2
  /\ response.participants[1].address = "b"
  /\ response.participants[2].address = "A"
  /\ response.participants[1].lng # response.participants[2].lng
  /\ response.participants[1].eta_minutes # response.participants[2].eta_minutes

AnyFailed(tasks) == \E i \in DOMAIN tasks : tasks[i].st = "failed"
FailureCodes(tasks) == {tasks[i].val : i \in {j \in DOMAIN tasks : tasks[j].st = "failed"}}

\* C9: once a call of a fan-out stage has failed the request fails with the
\* error of a failed call: it never produces a body, never goes on with fewer
\* participants, and starts no later stage.
C9_AnyCallFailureFailsRequest ==
  /\ []((AnyFailed(geo) \/ AnyFailed(iso) \/ AnyFailed(trv)) =>
          /\ pc = "failed"
          /\ response = NoResponse
          /\ error \in FailureCodes(geo) \cup FailureCodes(iso) \cup FailureCodes(trv)
          /\ Len(geo) = N
          /\ AnyFailed(geo) => (iso = <<>> /\ trv = <<>> /\ fetchLog = <<>> /\ calls.iso = 0)
          /\ AnyFailed(iso) => (trv = <<>> /\ calls.trv = 0 /\ Len(iso) = N))
  /\ [][(AnyFailed(geo) \/ AnyFailed(iso) \/ AnyFailed(trv)) =>
          (pc' \in {"failed", "idle"} /\ fetchLog' \in {fetchLog, <<>>}
           /\ calls' \in {calls, NoCalls} /\ error' \in {error, 0})]_vars

C9_Witness ==
  /\ pc = "failed" /\ N = 2 /\ error = 502
  /\ fetchLog = <<15, 15, 20, 20>>
  /\ iso[1].st = "done" /\ iso[2].st = "failed"
  /\ response = NoResponse /\ trv = <<>>

C9_WitnessGeocode ==
  /\ pc = "failed" /\ N = 2 /\ error = 400
  /\ geo[1].st = "failed" /\ geo[2].st = "pending"
  /\ iso = <<>>

\* C10: no isochrone call is issued before every geocoding call has completed;
\* the handler resumes from an isochrone round (and computes its intersection)
\* only when every call of that round has completed; travel-time calls exist
\* only once a non-empty region, hence a candidate, exists; and a request
\* answering no_common_reachable_region has issued none.
C10_StagesStrictlyOrdered ==
  /\ []((InHandler /\ (fetchLog # <<>> \/ iso # <<>>)) =>
          /\ AllDone(geo) /\ coords = Values(geo))
  /\ [][IsoJoinStep => AllDone(iso)]_vars
  /\ []((InHandler /\ (calls.trv > 0 \/ trv # <<>>)) =>
          /\ AllDone(iso)
          /\ ~is_empty(region)
          /\ region = _polygonal_region(_intersection(Values(iso)))
          /\ calls.trv = N)
  /\ [](NoCommon => (calls.trv = 0 /\ trv = <<>> /\ scenario = ""))
  /\ [][(calls'.trv > calls.trv) => (IsoJoinStep /\ AllDone(iso))]_vars

C10_Witness ==
  /\ NoCommon /\ calls.trv = 0 /\ calls.iso = 4 /\ calls.geo = 2
  /\ GeomType(intersection_geom) = "Lineal"

C10_WitnessTravel ==
  /\ pc = "travel" /\ N = 2 /\ calls.trv = 2
  /\ trv[1].st = "pending" /\ trv[2].st = "done"

(* ---------------- de-duplication and calls per stage ---------------- *)
\* positions of a list whose address was not seen before, up to letter case
FirstPositions(list) ==
  {i \in DOMAIN list : \A j \in 1..(i - 1) : Lower(list[j]) # Lower(list[i])}

\* r lists the first occurrences of list, in the order of list
IsFirstOccurrences(r, list) ==
  /\ Len(r) = Cardinality(FirstPositions(list))
  /\ \A k \in DOMAIN r :
       \E i \in FirstPositions(list) :
         /\ r[k] = list[i]
         /\ Cardinality({j \in FirstPositions(list) : j < i}) = k - 1

\* no two participants are equal once trimmed and lower-cased, none is blank
ParticipantsDistinct ==
  /\ \A i \in DOMAIN addresses : Strip(addresses[i]) = addresses[i] /\ addresses[i] # ""
  /\ \A i, j \in DOMAIN addresses :
       i # j => Lower(Strip(addresses[i])) # Lower(Strip(addresses[j]))

\* a request enters the geocoding stage
RequestStep == pc = "idle" /\ pc' = "geocoding"

\* participants whose cache key is absent from the cache
Uncached(addrs, city_hint) ==
  {i \in DOMAIN addrs : cache_key(addrs[i], city_hint) \notin DOMAIN _geocode_cache}

C11_WitnessCached ==
  /\ pc = "iso_first" /\ N = 1 /\ calls.geo = 0 /\ calls.iso = 1

(* ---------------- the geocode cache ---------------- *)
\* the addresses a participant can have
CleanAddrs == {Strip(a) : a \in RawAddrs} \ {""}

\* cache entries written for an address equal to `address` up to letter case,
\* under the same city hint
EntriesUpToCase(address, city_hint) ==
  {cache_key(a, city_hint) : a \in {b \in CleanAddrs : Lower(b) = Lower(address)}}
    \cap DOMAIN _geocode_cache

\* C12: once an address has been geocoded under a city hint, a later request
\* for an address differing from it only in letter case, under the same hint,
\* is answered from the cache with the same coordinate and without a
\* provider call.
C12_CacheKeyedByLowercasedAddress ==
  [][RequestStep =>
       \A i \in DOMAIN addresses' :
         \A k \in EntriesUpToCase(addresses'[i], payload'.city_hint) :
           geo'[i] = Done(_geocode_cache[k])]_vars

\* every entry of the cache is kept, with its coordinate
CacheEntriesKept ==
  \A k \in DOMAIN _geocode_cache :
    k \in DOMAIN _geocode_cache' /\ _geocode_cache'[k] = _geocode_cache[k]

\* a geocoding call of the running request returns and writes a key that
\* the cache already holds
WrittenAgain ==
  \E i \in DOMAIN geo \cap DOMAIN geo' :
    /\ geo[i].st = "pending" /\ geo'[i].st = "done"
    /\ cache_key(addresses[i], payload.city_hint) \in DOMAIN _geocode_cache

Running == pc \in {"geocoding", "iso_first", "iso_bumped", "travel"}
Terminal == pc \in {"done", "failed"}

\* how far the handler has come; the second isochrone round is the
\* escalation edge back into the fetch stage
Rank(p) ==
  CASE p = "idle" -> 0
    [] p = "geocoding" -> 1
    [] p = "iso_first" -> 2
    [] p = "iso_bumped" -> 3
    [] p = "travel" -> 4
    [] OTHER -> 5

\* the terminal states a request can be in
Resolved == pc = "done" /\ error = 0 /\ "reason" \notin DOMAIN response
              /\ "reachable" \in DOMAIN response /\ response.reachable
InfeasibleByTravelTime ==
  pc = "done" /\ error = 0 /\ HasReason("travel_time_exceeds_budget")
    /\ ~response.reachable
InfeasibleByNoCommonRegion ==
  pc = "done" /\ error = 0 /\ HasReason("no_common_reachable_region")
    /\ ~response.reachable
PropagatedError == pc = "failed" /\ error # 0 /\ response = NoResponse

TerminalKinds ==
  Cardinality({k \in {"resolved", "travel_time", "no_common", "error"} :
     \/ k = "resolved" /\ Resolved
     \/ k = "travel_time" /\ InfeasibleByTravelTime
     \/ k = "no_common" /\ InfeasibleByNoCommonRegion
     \/ k = "error" /\ PropagatedError})

\* C14: every request whose provider calls all return ends in a terminal
\* state, which is exactly one of Resolved, InfeasibleByTravelTime,
\* InfeasibleByNoCommonRegion or a propagated error; until then the handler
\* only moves forward, the one backward edge being the escalation into a
\* second isochrone round, taken at most once; a terminal state is left only
\* by returning.
C14_EveryRequestTerminates ==
  /\ Running ~> Terminal
  /\ [](Terminal => TerminalKinds = 1)
  /\ [](~Terminal => TerminalKinds = 0)
  /\ [][(pc' # pc /\ pc' # "idle") => Rank(pc') > Rank(pc)]_vars
  /\ [][(pc' = "iso_bumped" /\ pc # "iso_bumped") =>
          (pc = "iso_first" /\ Len(fetchLog) = N /\ Len(fetchLog') = 2 * N)]_vars
  /\ [][(Terminal /\ pc' # pc) => pc' = "idle"]_vars

\* a request that escalated has reached a terminal state
C14_Witness ==
  /\ Terminal /\ Len(fetchLog) = 2 * N /\ N = 2 /\ Resolved

(* ---------------- empty isochrones ---------------- *)
\* the isochrone call of participant i failed because the provider's
\* geometry was empty
EmptyGeometryRaised(i) ==
  /\ iso[i].st = "failed"
  /\ iso[i].detail = "Isochrone geometry was empty"

\* C15: an empty geometry returned by the isochrone provider is not surfaced
\* as an error: no isochrone call fails on it and the request does not fail
\* because of it.
C15_EmptyGeometryNotAnError ==
  \A i \in DOMAIN iso : ~EmptyGeometryRaised(i)

(* ---------------- normalisation ---------------- *)
\* S is a non-empty run of adjacent cells
IsRun(S) == S # {} /\ \A c \in Min(S)..Max(S) : c \in S

\* a single polygon
IsSinglePolygon(g) ==
  /\ "geoms" \notin DOMAIN g
  /\ g.edges = {} /\ g.pts = {}
  /\ IsRun(g.cells)

\* the cells covered by the polygons and multi-part polygons among the
\* members of a collection
PolygonalCells(g) ==
  IF "geoms" \in DOMAIN g
  THEN UNION {g.geoms[i].cells :
         i \in {j \in DOMAIN g.geoms : g.geoms[j].edges = {} /\ g.geoms[j].pts = {}}}
  ELSE g.cells

\* S is a connected component of U of the largest area
LargestRunOf(S, U) ==
  /\ IsRun(S) /\ S \subseteq U
  /\ (Min(S) - 1) \notin U /\ (Max(S) + 1) \notin U
  /\ \A T \in SUBSET U : IsRun(T) => Cardinality(T) <= Cardinality(S)

\* out is the first member of g of the largest area
FirstLargestMember(out, g) ==
  \E i \in DOMAIN Geoms(g) :
    /\ out = Geoms(g)[i]
    /\ \A j \in DOMAIN Geoms(g) : area(Geoms(g)[j]) <= area(out)
    /\ \A j \in 1..(i - 1) : area(Geoms(g)[j]) < area(out)

\* C16: _polygonal_region maps every geometry to a single polygon or an empty
\* geometry: an empty input is returned unchanged; a polygon yields itself
\* and a multi-part polygon its member of the largest area, the first one on
\* equal areas; a mixed collection yields the largest component of the union
\* of its polygonal members, lines and points discarded, which has a
\* positive area as soon as one member has; a non-empty geometry without an
\* areal member yields the empty polygon.
C16_NormalizesToSinglePolygon ==
  pc = "normalized" =>
    /\ is_empty(region) \/ IsSinglePolygon(region)
    /\ is_empty(intersection_geom) => region = intersection_geom
    /\ ~is_empty(intersection_geom) =>
         CASE GeomType(intersection_geom) = "Polygon" ->
                region = intersection_geom
           [] GeomType(intersection_geom) = "MultiPolygon" ->
                FirstLargestMember(region, intersection_geom)
           [] GeomType(intersection_geom) = "GeometryCollection" ->
                IF PolygonalCells(intersection_geom) = {}
                THEN region = EmptyGeom
                ELSE /\ IsSinglePolygon(region)
                     /\ LargestRunOf(region.cells, PolygonalCells(intersection_geom))
                     /\ area(region) > 0
           [] OTHER -> region = EmptyGeom

\* two overlapping polygons in a collection are merged before the largest
\* component is taken
C16_Witness ==
  /\ pc = "normalized"
  /\ intersection_geom = [type |-> "GeometryCollection",
                          geoms |-> <<PolygonOf({1, 2}), PolygonOf({2, 3})>>]
  /\ region = PolygonOf({1, 2, 3})

\* a multi-part polygon of two equal parts, the right one listed first
C16_WitnessTie ==
  /\ pc = "normalized"
  /\ intersection_geom = [type |-> "MultiPolygon",
                          geoms |-> <<PolygonOf({3}), PolygonOf({1})>>]
  /\ region = PolygonOf({3})

\* a polygon with the lines and points of a mixed intersection around it
C16_WitnessMixed ==
  /\ pc = "normalized"
  /\ intersection_geom = [cells |-> {2}, edges |-> {1, 2, 4}, pts |-> {1}]
  /\ region = PolygonOf({2})

\* C17: normalisation is idempotent, and the normal form of a single polygon
\* is that polygon: applying _polygonal_region to its own result returns the
\* result, and applying it to a single polygon returns the polygon.
C17_NormalizationIdempotent ==
  /\ pc = "renormalized" => region = intersection_geom
  /\ (pc = "normalized" /\ IsSinglePolygon(intersection_geom)) =>
       region = intersection_geom

\* a result that is a polygon has been normalised again
C17_Witness ==
  /\ pc = "renormalized" /\ IsSinglePolygon(intersection_geom)
  /\ region = PolygonOf({4, 5})

(* ---------------- stages as barriers ---------------- *)
\* calls of the running request that have not returned
Outstanding(tasks) == {i \in DOMAIN tasks : tasks[i].st = "pending"}

\* C18: every stage is a barrier also when one of its calls fails: a request
\* that has reached its end, with a result or an error, has no call in
\* flight in any stage, and no call of a request that has returned is still
\* in flight, so none can write the geocode cache afterwards.
C18_BarrierAlsoOnFailure ==
  /\ Terminal => (Outstanding(geo) = {} /\ Outstanding(iso) = {} /\ Outstanding(trv) = {})
  /\ orphans = {}

(* ---------------- the result and the last round ---------------- *)
\* the budget of the isochrone round performed last
LastRoundBudget == fetchLog[Len(fetchLog)]

\* C19: in every result max_minutes is the budget of the last isochrone
\* round performed, and the region, the candidate and the verdict derive
\* from the isochrones fetched in that round; the effective budget is the
\* requested budget B after one round and min(60, B + 5) after two, never
\* below B.
C19_ResultFromLastRound ==
  pc = "done" =>
    /\ fetchLog # <<>> /\ Len(iso) = N /\ AllDone(iso)
    /\ response.max_minutes = LastRoundBudget
    /\ minutes = LastRoundBudget
    /\ \A k \in (Len(fetchLog) - N + 1)..Len(fetchLog) : fetchLog[k] = LastRoundBudget
    /\ intersection_geom = _intersection(Values(iso))
    /\ region = _polygonal_region(_intersection(Values(iso)))
    /\ NoCommon <=> is_empty(region)
    /\ HasCandidate <=> ~is_empty(region)
    /\ HasCandidate =>
         /\ response.debug = region
         /\ response.meeting_point =
              [lat |-> Centroid(region)[2], lng |-> Centroid(region)[1]]
         /\ response.reachable <=>
              \A i \in DOMAIN response.participants :
                response.participants[i].eta_minutes <= 10 * LastRoundBudget + 5
    /\ response.max_minutes >= Requested
    /\ Len(fetchLog) = N => response.max_minutes = Requested
    /\ Len(fetchLog) = 2 * N => response.max_minutes = CapPlusFive(Requested)
    /\ Len(fetchLog) \in {N, 2 * N}

\* a result after escalation: the candidate comes from the second round
C19_Witness ==
  /\ HasCandidate /\ Len(fetchLog) = 2 * N /\ N = 2
  /\ Requested = 57 /\ response.max_minutes = 60
  /\ ~is_empty(region)

(* ---------------- the number of participants ---------------- *)
\* the request has passed validation and the token check
Accepted == payload # NoPayload

\* C20: a request that passes validation has between 1 and MAX_PARTICIPANTS
\* de-duplicated participants, so every isochrone round has one region per
\* participant, at least one, and the request never fails inside
\* _intersection; _intersection given no region at all raises an error
\* instead of returning a geometry, and given regions it raises none.
C20_IntersectionNeverEmptyHanded ==
  /\ Accepted =>
       /\ N >= 1 /\ N <= MAX_PARTICIPANTS
       /\ payload.addresses # <<>> =>
            /\ Len(payload.addresses) >= 1
            /\ Len(payload.addresses) <= MAX_PARTICIPANTS
            /\ N <= Len(payload.addresses)
       /\ fetchLog # <<>> => (Len(iso) = N /\ Len(coords) = N)
       /\ ~(pc = "failed" /\ error = 500)
  /\ (pc \in {"travel", "done"} /\ Accepted) =>
       IntersectionError(Values(iso)) = 0
  /\ IntersectionError(<<>>) # 0
  /\ \A polygons \in SeqsUpTo(IsoGeoms, MaxAddrs) \ {<<>>} :
       IntersectionError(polygons) = 0

\* a request with one participant: _intersection was given one region and
\* returned it
C20_Witness ==
  /\ pc = "travel" /\ Accepted /\ N = 1 /\ Len(iso) = 1
  /\ intersection_geom = iso[1].val /\ ~is_empty(intersection_geom)

\* the validator has let a list of MAX_PARTICIPANTS addresses through
C20_WitnessLimit ==
  /\ pc = "geocoding" /\ Len(payload.addresses) = MAX_PARTICIPANTS /\ N = 1
====
